---- MODULE Spec2Model ----
(***************************************************************************)
(* Fleet-tracking dashboard: the immobilisation request workflow           *)
(* (components/ImmobilisationModal, pages/DeviceDetail), the local command *)
(* log (services/commands.ts) and the reconnecting realtime client         *)
(* (services/traccarWebSocket.ts).                                          *)
(*                                                                         *)
(* Strings are sequences of one-character strings, so that trim() and      *)
(* toUpperCase() are computed character by character.                      *)
(***************************************************************************)
EXTENDS Integers, Sequences, FiniteSets, Bags, TLC

VARIABLES
    \* pages/DeviceDetail.tsx
    deviceId,          \* route parameter :id
    organizationId,    \* useAuth().organization.id
    userId,            \* useAuth().user.id
    show,              \* showImmobiliseModal / showRestoreModal, by modal type
    \* components/ImmobilisationModal (one instance per command type)
    step, checklist, reason, confirmation, isSubmitting,
    typedInput,        \* e.target.value of the last change event of the Step 3 input
    \* services/commands.ts
    commands,          \* localStorage['commands']: Absent or the stored array
    uuidsIssued,       \* number of crypto.randomUUID() results handed out
    now,               \* the clock new Date() reads
    \* observers of the workflow's outward effects
    successCalls,      \* arguments of the onSuccess invocations, in order
    outcome,           \* what the handler that ran last did: see Outcomes
    \* services/traccarWebSocket.ts (TraccarWebSocketClient singleton)
    ws, config, reconnectAttempts, handlers, isConnecting,
    sockets,           \* readyState of every WebSocket object still alive
    wsUrl,             \* this.ws.url, or <<>> while this.ws is null
    timers,            \* bag of pending setTimeout callbacks of attemptReconnect
    scheduledDelays,   \* delays passed to setTimeout since the counter was last 0
    \* callers of services/commands.ts and services/storage.ts
    localStorageKeys,  \* the STORAGE_KEYS that localStorage holds a value for
    lastCall,          \* the store function that ran last, with its arguments
    returned,          \* what it returned
    updateCalls,       \* number of updateCommand calls made
    \* inbound realtime messages
    lastMessage,       \* event.data, if the last step was a message event
    subscribed,        \* this.handlers at the moment that message arrived
    delivered,         \* what notifyHandlers did for it, in order
    dropped,           \* an earlier message was dropped by the catch of onmessage
    \* Settings page, hooks/useTraccarConfig.ts and services/traccarApi.ts
    formData,          \* state of TraccarConnectionSection
    traccarConfig,     \* localStorage['traccar_config'], parsed, or Null
    request            \* the call of services/traccarApi.ts the last step made

wfVars == <<deviceId, organizationId, userId, show, step, checklist, reason,
            confirmation, isSubmitting, typedInput, commands, uuidsIssued, now,
            successCalls, outcome>>
rtVars == <<ws, config, reconnectAttempts, handlers, isConnecting, sockets,
            wsUrl, timers, scheduledDelays>>
stVars == <<localStorageKeys, lastCall, returned, updateCalls>>
dpVars == <<lastMessage, subscribed, delivered, dropped>>
cfVars == <<formData, traccarConfig>>
vars == <<wfVars, rtVars, stVars, dpVars, cfVars, request>>

-----------------------------------------------------------------------------
(* Bounds of the model *)

MaxCommands == 2       \* the log is explored up to this many records
MaxSockets == 2        \* WebSocket objects alive at the same time
MaxTimers == 2         \* reconnect timers pending at the same time
MaxUpdates == 1        \* updateCommand calls made by the callers of the store
MaxSaves == 2          \* saves of the connection form

-----------------------------------------------------------------------------
(* Strings *)

LowerCase == <<"a","b","c","d","e","f","g","h","i","j","k","l","m",
               "n","o","p","q","r","s","t","u","v","w","x","y","z">>
UpperCase == <<"A","B","C","D","E","F","G","H","I","J","K","L","M",
               "N","O","P","Q","R","S","T","U","V","W","X","Y","Z">>

UpperChar(c) ==
    IF \E i \in DOMAIN LowerCase : LowerCase[i] = c
    THEN UpperCase[CHOOSE i \in DOMAIN LowerCase : LowerCase[i] = c]
    ELSE c

ToUpperCase_Identity(s) == s

\* String.prototype.toUpperCase
ToUpperCase(s) == [i \in DOMAIN s |-> UpperChar(s[i])]

WhiteSpace == {" ", "\t"}

RECURSIVE TrimStart(_)
TrimStart(s) ==
    IF s # <<>> /\ Head(s) \in WhiteSpace THEN TrimStart(Tail(s)) ELSE s

RECURSIVE TrimEnd(_)
TrimEnd(s) ==
    IF s # <<>> /\ s[Len(s)] \in WhiteSpace
    THEN TrimEnd(SubSeq(s, 1, Len(s) - 1))
    ELSE s

\* String.prototype.trim
Trim(s) == TrimEnd(TrimStart(s))

-----------------------------------------------------------------------------
(* Inputs *)

Types == {"IMMOBILISE", "RESTORE_POWER"}
DeviceIds == {1, 2}
ChecklistKeys == {"vehicleStationary", "userAuthorized", "actionAudited"}

\* Texts typed or pasted into the Step 2 textarea: empty, blank, and with
\* leading, trailing and inner white space
Reasons == {<<>>, <<" ">>, <<" ", "\t">>, <<"a">>, <<" ", "a", " ">>,
            <<"a", " ", "b">>, <<"\t", "a", " ", "b">>}

T_IMMOBILISE == <<"I","M","M","O","B","I","L","I","S","E">>
T_immobilise == <<"i","m","m","o","b","i","l","i","s","e">>
T_immobilize == <<"i","m","m","o","b","i","l","i","z","e">>
T_RESTORE_POWER == <<"R","E","S","T","O","R","E"," ","P","O","W","E","R">>
T_restore_power == <<"r","e","s","t","o","r","e"," ","p","o","w","e","r">>
T_RESTORE_UNDERSCORE == <<"R","E","S","T","O","R","E","_","P","O","W","E","R">>
T_immobilise_space == <<"i","m","m","o","b","i","l","i","s","e"," ">>

\* Texts typed or pasted into the Step 3 confirmation input
TypedInputs == {<<>>, T_IMMOBILISE, T_immobilise, T_immobilize,
                T_RESTORE_POWER, T_restore_power, T_RESTORE_UNDERSCORE,
                T_immobilise_space}

-----------------------------------------------------------------------------
(* services/commands.ts *)

Absent == "absent"     \* localStorage.getItem returns null

\* stored ? JSON.parse(stored) : []
StoredCommands == IF commands = Absent THEN <<>> ELSE commands

NewCommand_StatusPending(command, id, timestamp) ==
    [id |-> id, type |-> command.type, status |-> "pending",
     deviceId |-> command.deviceId, organizationId |-> command.organizationId,
     userId |-> command.userId, reason |-> command.reason,
     timestamp |-> timestamp]

\* { ...command, id: crypto.randomUUID(), timestamp: new Date().toISOString() }
NewCommand(command, id, timestamp) ==
    [id |-> id, type |-> command.type, status |-> command.status,
     deviceId |-> command.deviceId, organizationId |-> command.organizationId,
     userId |-> command.userId, reason |-> command.reason,
     timestamp |-> timestamp]

CreateCommandStored_Prepends(command) ==
    /\ uuidsIssued' = uuidsIssued + 1
    /\ now' = now + 1
    /\ commands' = <<NewCommand(command, uuidsIssued + 1, now)>> \o StoredCommands

\* createCommand when nothing throws: push the new record and write the array
\* back. The clock has moved on by the next call.
CreateCommandStored(command) ==
    /\ uuidsIssued' = uuidsIssued + 1
    /\ now' = now + 1
    /\ commands' = Append(StoredCommands,
                          NewCommand(command, uuidsIssued + 1, now))

IsPending_RequestedOnly(cmd) == cmd.status = "requested"

\* cmd.status === 'requested' || cmd.status === 'pending'
IsPending(cmd) == cmd.status \in {"requested", "pending"}

\* getDeviceCommands(deviceId, organizationId)
GetDeviceCommands(d, o) ==
    SelectSeq(StoredCommands,
              LAMBDA cmd : cmd.organizationId = o /\ cmd.deviceId = d)

-----------------------------------------------------------------------------
(* components/ImmobilisationModal *)

EmptyChecklist == [k \in ChecklistKeys |-> FALSE]

\* What a handler run did besides editing the form: closed the modal
\* (handleClose from the X or Cancel button), submitted (the try block of
\* handleSubmit ran to its end), or showed the failure alert after createCommand
\* or after onSuccess threw
Outcomes == {"none", "closed", "submitted", "createFailed", "callbackFailed"}

\* isImmobilise ? 'IMMOBILISE' : 'RESTORE POWER'
RequiredConfirmation(t) ==
    IF t = "IMMOBILISE" THEN T_IMMOBILISE ELSE T_RESTORE_POWER

CanProceed_Step3Open(t) ==
    IF step[t] = 1
    THEN checklist[t].vehicleStationary /\ checklist[t].userAuthorized
            /\ checklist[t].actionAudited
    ELSE IF step[t] = 2
    THEN Len(Trim(reason[t])) > 0
    ELSE TRUE

CanProceed_AnyReason(t) ==
    IF step[t] = 1
    THEN checklist[t].vehicleStationary /\ checklist[t].userAuthorized
            /\ checklist[t].actionAudited
    ELSE IF step[t] = 2
    THEN TRUE
    ELSE confirmation[t] = RequiredConfirmation(t)

\* canProceed of the modal of type t
CanProceed(t) ==
    IF step[t] = 1
    THEN checklist[t].vehicleStationary /\ checklist[t].userAuthorized
            /\ checklist[t].actionAudited
    ELSE IF step[t] = 2
    THEN Len(Trim(reason[t])) > 0
    ELSE confirmation[t] = RequiredConfirmation(t)

\* The modal renders its controls only while isOpen
Rendered(t) == show[t]

ResetWorkflow_KeepsReason(t) ==
    /\ step' = [step EXCEPT ![t] = 1]
    /\ checklist' = [checklist EXCEPT ![t] = EmptyChecklist]
    /\ reason' = reason
    /\ confirmation' = [confirmation EXCEPT ![t] = <<>>]
    /\ typedInput' = [typedInput EXCEPT ![t] = <<>>]
    /\ show' = [show EXCEPT ![t] = FALSE]

\* handleClose: reset every piece of workflow state, then onClose()
ResetWorkflow(t) ==
    /\ step' = [step EXCEPT ![t] = 1]
    /\ checklist' = [checklist EXCEPT ![t] = EmptyChecklist]
    /\ reason' = [reason EXCEPT ![t] = <<>>]
    /\ confirmation' = [confirmation EXCEPT ![t] = <<>>]
    /\ typedInput' = [typedInput EXCEPT ![t] = <<>>]
    /\ show' = [show EXCEPT ![t] = FALSE]

KeepWorkflow_Resets(t) == ResetWorkflow(t)

\* the catch/finally path of handleSubmit touches no workflow state
KeepWorkflow(t) ==
    UNCHANGED <<step, checklist, reason, confirmation, typedInput, show>>

\* "Request Immobilisation" / "Request Power Restoration" button of DeviceDetail:
\* rendered only while the device has no requested/pending command of the type;
\* the open modal's overlay covers the page, so one modal is opened at a time.
OpenModal(t) ==
    /\ \A u \in Types : ~show[u]
    /\ ~\E i \in DOMAIN GetDeviceCommands(deviceId, organizationId) :
            LET cmd == GetDeviceCommands(deviceId, organizationId)[i]
            IN  cmd.type = t /\ IsPending(cmd)
    /\ show' = [show EXCEPT ![t] = TRUE]
    /\ UNCHANGED <<deviceId, organizationId, userId, step, checklist, reason,
                   confirmation, isSubmitting, typedInput, commands,
                   uuidsIssued, now, successCalls>>
    /\ outcome' = "none"
    /\ UNCHANGED <<rtVars, stVars, dpVars, cfVars, request>>

\* handleChecklistChange(key); the checkboxes exist at Step 1 only
HandleChecklistChange(t, key) ==
    /\ Rendered(t) /\ step[t] = 1
    /\ checklist' = [checklist EXCEPT ![t][key] = ~@]
    /\ UNCHANGED <<deviceId, organizationId, userId, show, step, reason,
                   confirmation, isSubmitting, typedInput, commands,
                   uuidsIssued, now, successCalls>>
    /\ outcome' = "none"
    /\ UNCHANGED <<rtVars, stVars, dpVars, cfVars, request>>

\* onChange of the Step 2 textarea: setReason(e.target.value)
SetReason(t, v) ==
    /\ Rendered(t) /\ step[t] = 2
    /\ reason' = [reason EXCEPT ![t] = v]
    /\ UNCHANGED <<deviceId, organizationId, userId, show, step, checklist,
                   confirmation, isSubmitting, typedInput, commands,
                   uuidsIssued, now, successCalls>>
    /\ outcome' = "none"
    /\ UNCHANGED <<rtVars, stVars, dpVars, cfVars, request>>

\* onChange of the Step 3 input: setConfirmation(e.target.value.toUpperCase())
SetConfirmation(t, v) ==
    /\ Rendered(t) /\ step[t] = 3
    /\ typedInput' = [typedInput EXCEPT ![t] = v]
    /\ confirmation' = [confirmation EXCEPT ![t] = ToUpperCase(v)]
    /\ UNCHANGED <<deviceId, organizationId, userId, show, step, checklist,
                   reason, isSubmitting, commands, uuidsIssued, now,
                   successCalls>>
    /\ outcome' = "none"
    /\ UNCHANGED <<rtVars, stVars, dpVars, cfVars, request>>

\* Next button: rendered while step < 3, disabled unless canProceed
NextStep(t) ==
    /\ Rendered(t) /\ step[t] < 3
    /\ CanProceed(t) /\ ~isSubmitting[t]
    /\ step' = [step EXCEPT ![t] = @ + 1]
    /\ UNCHANGED <<deviceId, organizationId, userId, show, checklist, reason,
                   confirmation, isSubmitting, typedInput, commands,
                   uuidsIssued, now, successCalls>>
    /\ outcome' = "none"
    /\ UNCHANGED <<rtVars, stVars, dpVars, cfVars, request>>

\* Back button: rendered while step > 1
BackStep(t) ==
    /\ Rendered(t) /\ step[t] > 1
    /\ ~isSubmitting[t]
    /\ step' = [step EXCEPT ![t] = @ - 1]
    /\ UNCHANGED <<deviceId, organizationId, userId, show, checklist, reason,
                   confirmation, isSubmitting, typedInput, commands,
                   uuidsIssued, now, successCalls>>
    /\ outcome' = "none"
    /\ UNCHANGED <<rtVars, stVars, dpVars, cfVars, request>>

\* X button and Cancel button: handleClose
HandleClose(t) ==
    /\ Rendered(t)
    /\ ResetWorkflow(t)
    /\ UNCHANGED <<deviceId, organizationId, userId, isSubmitting, commands,
                   uuidsIssued, now, successCalls>>
    /\ outcome' = "closed"
    /\ UNCHANGED <<rtVars, stVars, dpVars, cfVars, request>>

\* The argument handleSubmit passes to createCommand
SubmittedCommand(t) ==
    [type |-> t, status |-> "requested", deviceId |-> deviceId,
     organizationId |-> organizationId, userId |-> userId,
     reason |-> Trim(reason[t])]

\* handleSubmit, try block runs to its end: createCommand, onSuccess, handleClose
SubmitSucceeds(t) ==
    /\ CreateCommandStored(SubmittedCommand(t))
    /\ successCalls' = Append(successCalls, commands'[Len(commands')])
    /\ ResetWorkflow(t)
    /\ outcome' = "submitted"

\* handleSubmit, createCommand throws (localStorage or crypto unavailable, quota
\* exceeded): nothing is written, the catch block alerts
SubmitCreateThrows(t) ==
    /\ outcome' = "createFailed"
    /\ KeepWorkflow(t)
    /\ UNCHANGED <<commands, uuidsIssued, now, successCalls>>

\* handleSubmit, the caller's onSuccess throws: the record is already stored,
\* handleClose is skipped, the catch block alerts
SubmitCallbackThrows(t) ==
    /\ CreateCommandStored(SubmittedCommand(t))
    /\ successCalls' = Append(successCalls, commands'[Len(commands')])
    /\ outcome' = "callbackFailed"
    /\ KeepWorkflow(t)

\* Submit button: rendered at Step 3, disabled unless canProceed;
\* setIsSubmitting(true) ... finally setIsSubmitting(false) within one handler run
HandleSubmit(t) ==
    /\ Rendered(t) /\ step[t] = 3
    /\ ~isSubmitting[t]
    /\ CanProceed(t)
    /\ Len(StoredCommands) < MaxCommands
    /\ \/ SubmitSucceeds(t)
       \/ SubmitCreateThrows(t)
       \/ SubmitCallbackThrows(t)
    /\ isSubmitting' = [isSubmitting EXCEPT ![t] = FALSE]
    /\ UNCHANGED <<deviceId, organizationId, userId>>
    /\ UNCHANGED <<rtVars, stVars, dpVars, cfVars, request>>

\* Following a link to another device page; the closed modals keep their
\* (reset) state
Navigate(d) ==
    /\ \A u \in Types : ~show[u]
    /\ d # deviceId
    /\ deviceId' = d
    /\ UNCHANGED <<organizationId, userId, show, step, checklist, reason,
                   confirmation, isSubmitting, typedInput, commands,
                   uuidsIssued, now, successCalls>>
    /\ outcome' = "none"
    /\ UNCHANGED <<rtVars, stVars, dpVars, cfVars, request>>

-----------------------------------------------------------------------------
(* Connection config: models/types.ts TraccarConfig, the texts typed into  *)
(* the Settings form, and services/traccarApi.ts                           *)

Null == [kind |-> "null"]

\* The texts of the form inputs and of services/traccarApi.ts and
\* services/traccarWebSocket.ts
Text ==
    [https_x |-> <<"h","t","t","p","s",":","/","/","x",".","t","e","s","t">>,
     http_x_slash |-> <<"h","t","t","p",":","/","/","x",".","t","e","s","t","/">>,
     https_x_slashes |-> <<"h","t","t","p","s",":","/","/","x",".","t","e","s","t","/","/">>,
     tk |-> <<"t","k">>,
     u |-> <<"u">>,
     p |-> <<"p">>,
     http_colon |-> <<"h","t","t","p",":">>,
     https_colon |-> <<"h","t","t","p","s",":">>,
     ws_colon |-> <<"w","s",":">>,
     wss_colon |-> <<"w","s","s",":">>,
     api_socket |-> <<"/","a","p","i","/","s","o","c","k","e","t">>,
     Bearer |-> <<"B","e","a","r","e","r"," ">>,
     Basic |-> <<"B","a","s","i","c"," ">>,
     api_devices |-> <<"/","a","p","i","/","d","e","v","i","c","e","s">>,
     api_server |-> <<"/","a","p","i","/","s","e","r","v","e","r">>]

\* Texts typed into the inputs of the connection form; <<>> is a cleared input
ServerUrls == {<<>>, Text.http_x_slash}
AuthMethods == {"token", "basic"}
ApiTokens == {<<>>, Text.tk}
Usernames == {<<>>, Text.u}
Passwords == {<<>>, Text.p}

\* { ...formData, organizationId }
NewConfig(form, org) ==
    [serverUrl |-> form.serverUrl, authMethod |-> form.authMethod,
     apiToken |-> form.apiToken, username |-> form.username,
     password |-> form.password, organizationId |-> org]

\* { ...newConfig, isValid, lastTested: new Date().toISOString() }
ConfigToSave(newConfig, isValid, lastTested) ==
    [serverUrl |-> newConfig.serverUrl, authMethod |-> newConfig.authMethod,
     apiToken |-> newConfig.apiToken, username |-> newConfig.username,
     password |-> newConfig.password,
     organizationId |-> newConfig.organizationId,
     isValid |-> isValid, lastTested |-> lastTested]

ConfigA ==
    ConfigToSave([serverUrl |-> Text.https_x, authMethod |-> "token",
                  apiToken |-> Text.tk, username |-> <<>>, password |-> <<>>,
                  organizationId |-> "1"], TRUE, 0)
ConfigB ==
    ConfigToSave([serverUrl |-> Text.http_x_slash, authMethod |-> "basic",
                  apiToken |-> <<>>, username |-> Text.u, password |-> Text.p,
                  organizationId |-> "1"], TRUE, 0)

StartsWith(s, prefix) ==
    Len(s) >= Len(prefix) /\ SubSeq(s, 1, Len(prefix)) = prefix

\* s.replace(/^prefix/, by)
ReplacePrefix(s, prefix, by) ==
    IF StartsWith(s, prefix)
    THEN by \o SubSeq(s, Len(prefix) + 1, Len(s))
    ELSE s

\* s.replace(/\/$/, '')
RemoveTrailingSlash(s) ==
    IF s # <<>> /\ s[Len(s)] = "/" THEN SubSeq(s, 1, Len(s) - 1) ELSE s


WsUrl_AlwaysWs(serverUrl) ==
    RemoveTrailingSlash(
        ReplacePrefix(ReplacePrefix(serverUrl, Text.http_colon, Text.ws_colon),
                      Text.https_colon, Text.ws_colon)) \o Text.api_socket

\* config.serverUrl.replace(/^http:/, 'ws:').replace(/^https:/, 'wss:')
\*                 .replace(/\/$/, '') + '/api/socket'
WsUrl(serverUrl) ==
    RemoveTrailingSlash(
        ReplacePrefix(ReplacePrefix(serverUrl, Text.http_colon, Text.ws_colon),
                      Text.https_colon, Text.wss_colon)) \o Text.api_socket

\* btoa: the character codes of letters, digits and the colon, the Base64
\* alphabet, and the encoding of three bytes as four characters with "="
\* padding
Digits == <<"0","1","2","3","4","5","6","7","8","9">>
Base64Alphabet == UpperCase \o LowerCase \o Digits \o <<"+","/">>

\* String.prototype.charCodeAt
CharCode(c) ==
    IF \E i \in DOMAIN UpperCase : UpperCase[i] = c
    THEN 64 + (CHOOSE i \in DOMAIN UpperCase : UpperCase[i] = c)
    ELSE IF \E i \in DOMAIN LowerCase : LowerCase[i] = c
    THEN 96 + (CHOOSE i \in DOMAIN LowerCase : LowerCase[i] = c)
    ELSE IF \E i \in DOMAIN Digits : Digits[i] = c
    THEN 47 + (CHOOSE i \in DOMAIN Digits : Digits[i] = c)
    ELSE 58    \* ":"

RECURSIVE Base64(_)
Base64(bytes) ==
    LET char(n) == Base64Alphabet[n + 1]
    IN  IF Len(bytes) = 0 THEN <<>>
        ELSE IF Len(bytes) = 1
        THEN <<char(bytes[1] \div 4), char((bytes[1] % 4) * 16), "=", "=">>
        ELSE IF Len(bytes) = 2
        THEN <<char(bytes[1] \div 4),
               char((bytes[1] % 4) * 16 + bytes[2] \div 16),
               char((bytes[2] % 16) * 4), "=">>
        ELSE <<char(bytes[1] \div 4),
               char((bytes[1] % 4) * 16 + bytes[2] \div 16),
               char((bytes[2] % 16) * 4 + bytes[3] \div 64),
               char(bytes[3] % 64)>> \o Base64(SubSeq(bytes, 4, Len(bytes)))

Btoa(s) == Base64([i \in DOMAIN s |-> CharCode(s[i])])


getAuthHeaders_TokenFirst(cfg) ==
    IF cfg.apiToken # <<>>
    THEN [ContentType |-> "application/json",
          Authorization |-> Text.Bearer \o cfg.apiToken]
    ELSE IF cfg.username # <<>> /\ cfg.password # <<>>
    THEN [ContentType |-> "application/json",
          Authorization |-> Text.Basic \o Btoa(cfg.username \o <<":">> \o cfg.password)]
    ELSE [ContentType |-> "application/json"]

\* getAuthHeaders(config); an empty string is falsy
getAuthHeaders(cfg) ==
    IF cfg.authMethod = "token" /\ cfg.apiToken # <<>>
    THEN [ContentType |-> "application/json",
          Authorization |-> Text.Bearer \o cfg.apiToken]
    ELSE IF cfg.authMethod = "basic" /\ cfg.username # <<>> /\ cfg.password # <<>>
    THEN [ContentType |-> "application/json",
          Authorization |-> Text.Basic \o Btoa(cfg.username \o <<":">> \o cfg.password)]
    ELSE [ContentType |-> "application/json"]

\* What fetch settles with: a response, whose body is JSON text or not, or a
\* rejection (network failure, CORS)
Response(status, statusText, body) ==
    [kind |-> "response", status |-> status, statusText |-> statusText,
     body |-> body]
Responses ==
    {Response(200, "OK", "json"),
     Response(204, "No Content", "empty"),
     Response(401, "Unauthorized", "text"),
     Response(404, "Not Found", "text"),
     Response(500, "Internal Server Error", "html"),
     [kind |-> "rejects"]}

\* The promise an async function returns: resolved with a value or rejected
\* with an error
Resolved(value) == [kind |-> "resolved", value |-> value]
Rejected(message) == [kind |-> "rejected", message |-> message]
RejectedApiError(status, statusText) ==
    [kind |-> "rejected", message |-> "Traccar API error: ",
     status |-> status, statusText |-> statusText]

ErrorMessage ==
    [notConfigured |->
         "Traccar connection not configured or invalid. Please configure in Settings.",
     authentication |->
         "Authentication failed. Please check your Traccar credentials.",
     notFound |-> "Resource not found."]

\* No call of fetch, no response, no call of services/traccarApi.ts
None == [kind |-> "none"]

\* getTraccarConfig(): null when nothing is stored or JSON.parse throws
Unparsable == [kind |-> "unparsable"]
getTraccarConfig == IF traccarConfig = Unparsable THEN Null ELSE traccarConfig

\* response.json() after the status checks of apiRequest
Settle(response) ==
    IF response.kind = "rejects" THEN Rejected("TypeError")
    ELSE IF response.status \notin 200..299
    THEN IF response.status = 401 THEN Rejected(ErrorMessage.authentication)
         ELSE IF response.status = 404 THEN Rejected(ErrorMessage.notFound)
         ELSE RejectedApiError(response.status, response.statusText)
    ELSE IF response.body = "json" THEN Resolved(response.body)
    ELSE Rejected("SyntaxError")

\* apiRequest(endpoint): the call of fetch it makes, what fetch settles
\* with, and what apiRequest settles with
apiRequest(endpoint, response) ==
    LET cfg == getTraccarConfig
    IN  IF cfg = Null
        THEN [kind |-> "apiRequest", fetch |-> None,
              response |-> None, result |-> Rejected(ErrorMessage.notConfigured)]
        ELSE IF ~cfg.isValid
        THEN [kind |-> "apiRequest", fetch |-> None,
              response |-> None, result |-> Rejected(ErrorMessage.notConfigured)]
        ELSE [kind |-> "apiRequest",
              fetch |-> [kind |-> "fetch",
                         url |-> RemoveTrailingSlash(cfg.serverUrl) \o endpoint,
                         headers |-> getAuthHeaders(cfg)],
              response |-> response, result |-> Settle(response)]

\* testTraccarConnection(config): true when GET /api/server answers with a
\* 2xx status and a JSON body
testTraccarConnection(cfg, response) ==
    LET verdict == IF response.kind = "rejects" THEN FALSE
                   ELSE IF response.status \notin 200..299 THEN FALSE
                   ELSE response.body = "json"
    IN  [kind |-> "testTraccarConnection",
         fetch |-> [kind |-> "fetch",
                    url |-> RemoveTrailingSlash(cfg.serverUrl) \o Text.api_server,
                    headers |-> getAuthHeaders(cfg)],
         response |-> response, result |-> Resolved(verdict)]

NoRequest == request' = None

-----------------------------------------------------------------------------
(* services/traccarWebSocket.ts                                            *)
(*                                                                         *)
(* The methods and event handlers of TraccarWebSocketClient are operators  *)
(* from the client's state to its next state, so that a caller running two *)
(* of them in a row (saveConfig) composes them.                            *)

MaxReconnectAttempts == 5
ReconnectDelay == 3000

\* TraccarConfig objects handed to connect
Configs ==
    {ConfigA, ConfigB, [ConfigA EXCEPT !.serverUrl = Text.https_x_slashes]}
Kinds == {"positions", "devices", "events"}
HandlerIds == {"h1", "h2"}

\* A WebSocket object is CONNECTING, OPEN, CLOSING (close() was called, its
\* close event is still to come) or CLOSED. A CLOSED object that the client no
\* longer references is garbage: its slot is FREE again.
SocketIds == 1..MaxSockets

\* A Set<MessageHandler> iterates in insertion order: a sequence without
\* duplicates
Range(seq) == {seq[i] : i \in DOMAIN seq}
SetAdd(seq, h) == IF h \in Range(seq) THEN seq ELSE Append(seq, h)

SetDelete_Nothing(seq, h) == seq

SetDelete(seq, h) == SelectSeq(seq, LAMBDA x : x # h)

\* handlers.get(type) of a Map without an entry for type is undefined, and
\* subscribe and notifyHandlers treat that like an empty Set
NoHandlers == [k \in Kinds |-> <<>>]

\* The client object together with the sockets and timers it created
client ==
    [ws |-> ws, config |-> config, reconnectAttempts |-> reconnectAttempts,
     handlers |-> handlers, isConnecting |-> isConnecting, sockets |-> sockets,
     wsUrl |-> wsUrl, timers |-> timers, scheduledDelays |-> scheduledDelays, overflow |-> FALSE]

RECURSIVE Pow2(_)
Pow2(n) == IF n = 0 THEN 1 ELSE 2 * Pow2(n - 1)

BackoffDelay_NoMinusOne(attempt) == ReconnectDelay * Pow2(attempt)

\* this.reconnectDelay * Math.pow(2, this.reconnectAttempts - 1)
BackoffDelay(attempt) == ReconnectDelay * Pow2(attempt - 1)

\* A pending setTimeout callback. stale marks a timer that was pending when
\* disconnect() ran; the code keeps no such mark.
Timer(delay, stale) == [delay |-> delay, stale |-> stale]

MarkStale(bag) ==
    LET ds == {t.delay : t \in BagToSet(bag)}
    IN  [t \in {Timer(d, TRUE) : d \in ds} |->
            CopiesIn(Timer(t.delay, FALSE), bag) + CopiesIn(Timer(t.delay, TRUE), bag)]

\* attemptReconnect()
attemptReconnect(c) ==
    IF c.reconnectAttempts >= MaxReconnectAttempts THEN c
    ELSE IF c.config = Null THEN c
    ELSE LET n == c.reconnectAttempts + 1
         IN  [c EXCEPT !.reconnectAttempts = n,
                       !.timers = @ (+) SetToBag({Timer(BackoffDelay(n), FALSE)}),
                       !.scheduledDelays = Append(@, BackoffDelay(n))]

\* this.ws = new WebSocket(wsUrl): a new CONNECTING object replaces the one
\* referenced so far, which is garbage if it was CLOSED
newWebSocket(c) ==
    LET kept == IF c.ws # 0 /\ c.sockets[c.ws] = "CLOSED"
                THEN [c.sockets EXCEPT ![c.ws] = "FREE"] ELSE c.sockets
        free == {s \in SocketIds : kept[s] = "FREE"}
    IN  IF free = {} THEN [c EXCEPT !.overflow = TRUE]
        ELSE LET id == CHOOSE s \in free : \A u \in free : s <= u
             IN  [c EXCEPT !.sockets = [kept EXCEPT ![id] = "CONNECTING"],
                           !.ws = id,
                           !.wsUrl = WsUrl(c.config.serverUrl)]

\* this.isConnecting || (this.ws && this.ws.readyState === WebSocket.OPEN)
connectGuard(c) ==
    c.isConnecting \/ (c.ws # 0 /\ c.sockets[c.ws] = "OPEN")

connect_ResetsRetryCount(c, cfg) ==
    IF connectGuard(c) THEN c
    ELSE IF cfg = Null
    THEN attemptReconnect([c EXCEPT !.config = Null, !.isConnecting = FALSE])
    ELSE newWebSocket([c EXCEPT !.config = cfg, !.isConnecting = TRUE,
                                !.reconnectAttempts = 0, !.scheduledDelays = <<>>])

\* connect(config). With a null config (the timer callback's this.config! after
\* a disconnect) config.serverUrl throws before a socket is made, and the catch
\* block clears isConnecting and calls attemptReconnect.
connect(c, cfg) ==
    IF connectGuard(c) THEN c
    ELSE IF cfg = Null
    THEN attemptReconnect([c EXCEPT !.config = Null, !.isConnecting = FALSE])
    ELSE newWebSocket([c EXCEPT !.config = cfg, !.isConnecting = TRUE])

disconnect_KeepsRetryCount(c) ==
    [c EXCEPT !.sockets = IF c.ws = 0 THEN @
                          ELSE IF @[c.ws] \in {"CONNECTING", "OPEN"}
                          THEN [@ EXCEPT ![c.ws] = "CLOSING"]
                          ELSE [@ EXCEPT ![c.ws] = "FREE"],
              !.ws = 0,
              !.wsUrl = <<>>,
              !.handlers = NoHandlers,
              !.config = Null,
              !.timers = MarkStale(@)]

\* disconnect(): ws.close() and this.ws = null, then the three resets;
\* isConnecting and the pending timers are not touched
disconnect(c) ==
    [c EXCEPT !.sockets = IF c.ws = 0 THEN @
                          ELSE IF @[c.ws] \in {"CONNECTING", "OPEN"}
                          THEN [@ EXCEPT ![c.ws] = "CLOSING"]
                          ELSE [@ EXCEPT ![c.ws] = "FREE"],
              !.ws = 0,
              !.wsUrl = <<>>,
              !.handlers = NoHandlers,
              !.config = Null,
              !.reconnectAttempts = 0,
              !.scheduledDelays = <<>>,
              !.timers = MarkStale(@)]

onopen_KeepsRetryCount(c) == [c EXCEPT !.isConnecting = FALSE]

\* ws.onopen
onopen(c) ==
    [c EXCEPT !.isConnecting = FALSE, !.reconnectAttempts = 0,
              !.scheduledDelays = <<>>]

\* ws.onerror
onerror(c) == [c EXCEPT !.isConnecting = FALSE]

\* ws.onclose
onclose(c) == attemptReconnect([c EXCEPT !.isConnecting = FALSE])

\* Socket s reached CLOSED; it stays around only while this.ws references it
closed(c, s) ==
    [c EXCEPT !.sockets[s] = IF s = c.ws THEN "CLOSED" ELSE "FREE"]

\* event.data of a message event: text that JSON.parse rejects, or the JSON
\* text of null, of a number, or of an object with some of the three kinds as
\* keys, each with an array as its value
Data(json, value) == [json |-> json, value |-> value]
NoData == Data("none", <<>>)
Malformed == Data("malformed", <<>>)
JsonNull == Data("null", <<>>)
JsonNumber == Data("number", <<>>)
KindPayload == [positions |-> <<"p">>, devices |-> <<"d">>, events |-> <<"e">>]
MessageKinds == {{}, {"positions"}, {"events"}, {"devices", "events"}, Kinds}
MessageData ==
    {Malformed, JsonNull, JsonNumber, Data("object", [k \in {"positions"} |-> <<>>])}
    \cup {Data("object", [k \in K |-> KindPayload[k]]) : K \in MessageKinds}

\* The subscriptions the pages make: two handlers for positions, one for each
\* of the other kinds
Subscriptions == {<<"positions", "h1">>, <<"positions", "h2">>,
                  <<"devices", "h2">>, <<"events", "h1">>}

\* What a subscribed handler does when it is called: return, throw, or call
\* the unsubscribe function of a subscription and return
Behaviours ==
    {<<"return">>, <<"throw">>}
    \cup {<<"unsubscribe", sub[1], sub[2]>> : sub \in Subscriptions \ {<<"devices", "h2">>}}

Undefined == "undefined"

\* message[kind]
Property(message, kind) ==
    IF kind \in DOMAIN message.value THEN message.value[kind] ELSE Undefined

Truthy_EmptyArrayFalsy(v) == v # Undefined /\ v # <<>>

\* if (message.positions): an array, also an empty one, is truthy
Truthy(v) == v # Undefined

\* The dispatch of one message: the handler sets as they are now and what has
\* been done so far
Dispatch(hs, log) == [handlers |-> hs, log |-> log]

\* One iteration of handlers.forEach: handler(data) inside try/catch
CallHandler(d, type, h, data, behaviour) ==
    LET called == Dispatch(d.handlers, Append(d.log, <<"call", type, h, data>>))
    IN  IF behaviour[h] = <<"return">> THEN called
        ELSE IF behaviour[h] = <<"throw">>
        THEN Dispatch(called.handlers, Append(called.log, <<"caught", type, h>>))
        ELSE LET k == behaviour[h][2]
                 g == behaviour[h][3]
             IN  Dispatch([called.handlers EXCEPT ![k] = SetDelete(@, g)],
                          Append(called.log, <<"unsubscribed", k, g>>))

\* handlers.forEach from the i-th handler of the Set as it was when the
\* iteration began on: a handler deleted in the meantime is not visited
RECURSIVE ForEach(_, _, _, _, _, _)
ForEach(d, type, data, behaviour, entries, i) ==
    IF i > Len(entries) THEN d
    ELSE IF entries[i] \notin Range(d.handlers[type])
    THEN ForEach(d, type, data, behaviour, entries, i + 1)
    ELSE ForEach(CallHandler(d, type, entries[i], data, behaviour),
                 type, data, behaviour, entries, i + 1)

\* notifyHandlers(type, data)
notifyHandlers(d, type, data, behaviour) ==
    ForEach(d, type, data, behaviour, d.handlers[type], 1)

\* if (message.kind) { this.notifyHandlers('kind', message.kind); }
handleKind(d, message, kind, behaviour) ==
    IF Truthy(Property(message, kind))
    THEN notifyHandlers(d, kind, Property(message, kind), behaviour)
    ELSE d

\* handleMessage(message)
handleMessage(d, message, behaviour) ==
    handleKind(handleKind(handleKind(d, message, "positions", behaviour),
                          message, "devices", behaviour),
               message, "events", behaviour)

\* JSON.parse(event.data) throws on text that is not JSON, and
\* message.positions throws on null: the catch of onmessage is entered
Throws(data) == data.json \in {"malformed", "null"}

catchMessageError_ClosesSocket(c) == onclose(closed(c, c.ws))

\* catch (error) { console.error(...) } of onmessage
catchMessageError(c) == c

\* ws.onmessage
onmessage(c, data, behaviour) ==
    IF Throws(data) THEN catchMessageError(c)
    ELSE [c EXCEPT !.handlers =
              handleMessage(Dispatch(c.handlers, <<>>), data, behaviour).handlers]

\* No message event in this step
NoMessage ==
    /\ lastMessage' = NoData
    /\ subscribed' = NoHandlers
    /\ delivered' = <<>>
    /\ UNCHANGED dropped

\* The next state of the client is c, within the bounds of the model
Becomes(c) ==
    /\ ~c.overflow
    /\ BagCardinality(c.timers) <= MaxTimers
    /\ ws' = c.ws
    /\ config' = c.config
    /\ reconnectAttempts' = c.reconnectAttempts
    /\ handlers' = c.handlers
    /\ isConnecting' = c.isConnecting
    /\ sockets' = c.sockets
    /\ wsUrl' = c.wsUrl
    /\ timers' = c.timers
    /\ scheduledDelays' = c.scheduledDelays

\* traccarWebSocket.connect(config) called by a page (LiveMap's effect)
Connect(cfg) ==
    /\ Becomes(connect(client, cfg))
    /\ NoMessage
    /\ NoRequest
    /\ UNCHANGED <<wfVars, stVars, cfVars>>

\* traccarWebSocket.disconnect()
Disconnect ==
    /\ Becomes(disconnect(client))
    /\ NoMessage
    /\ NoRequest
    /\ UNCHANGED <<wfVars, stVars, cfVars>>

\* saveConfig with a valid probe: disconnect() then connect(configToSave)
SaveConfigReconnect(cfg) ==
    /\ Becomes(connect(disconnect(client), cfg))
    /\ NoMessage
    /\ NoRequest
    /\ UNCHANGED <<wfVars, stVars, cfVars>>

\* the setTimeout callback of attemptReconnect: this.connect(this.config!)
TimerFires(t) ==
    /\ BagIn(t, timers)
    /\ Becomes(connect([client EXCEPT !.timers = @ (-) SetToBag({t})], config))
    /\ NoMessage
    /\ NoRequest
    /\ UNCHANGED <<wfVars, stVars, cfVars>>

\* The connection is established: open event
SocketOpens(s) ==
    /\ sockets[s] = "CONNECTING"
    /\ Becomes(onopen([client EXCEPT !.sockets[s] = "OPEN"]))
    /\ NoMessage
    /\ NoRequest
    /\ UNCHANGED <<wfVars, stVars, cfVars>>

\* The connection attempt fails: error event, then close event, in one task
SocketFails(s) ==
    /\ sockets[s] = "CONNECTING"
    /\ Becomes(onclose(onerror(closed(client, s))))
    /\ NoMessage
    /\ NoRequest
    /\ UNCHANGED <<wfVars, stVars, cfVars>>

\* An open connection is closed by the server or the network: close event
SocketCloses(s) ==
    /\ sockets[s] = "OPEN"
    /\ Becomes(onclose(closed(client, s)))
    /\ NoMessage
    /\ NoRequest
    /\ UNCHANGED <<wfVars, stVars, cfVars>>

\* The close event of a socket on which close() was called
SocketClosed(s) ==
    /\ sockets[s] = "CLOSING"
    /\ Becomes(onclose(closed(client, s)))
    /\ NoMessage
    /\ NoRequest
    /\ UNCHANGED <<wfVars, stVars, cfVars>>

\* subscribe(type, handler); LiveMap subscribes with onPositions
Subscribe(k, h) ==
    /\ Becomes([client EXCEPT !.handlers[k] = SetAdd(@, h)])
    /\ NoMessage
    /\ NoRequest
    /\ UNCHANGED <<wfVars, stVars, cfVars>>

\* the function subscribe returned, called by the cleanup of LiveMap's effect
Unsubscribe(k, h) ==
    /\ Becomes([client EXCEPT !.handlers[k] = SetDelete(@, h)])
    /\ NoMessage
    /\ NoRequest
    /\ UNCHANGED <<wfVars, stVars, cfVars>>

\* A message event on an open socket
ReceiveMessage(s, data, behaviour) ==
    /\ sockets[s] = "OPEN"
    /\ Becomes(onmessage(client, data, behaviour))
    /\ lastMessage' = data
    /\ subscribed' = handlers
    /\ delivered' = IF Throws(data) THEN <<>>
                    ELSE handleMessage(Dispatch(handlers, <<>>), data, behaviour).log
    /\ dropped' = (dropped \/ Throws(data))
    /\ NoRequest
    /\ UNCHANGED <<wfVars, stVars, cfVars>>

-----------------------------------------------------------------------------
(* services/commands.ts and services/storage.ts, as their callers use them *)

modalVars == <<deviceId, organizationId, userId, show, step, checklist, reason,
               confirmation, isSubmitting, typedInput, successCalls, outcome>>

OrganizationIds == {"1", "2"}

\* Arguments of createCommand: Omit<Command, 'id' | 'timestamp'>
CommandInputs ==
    {[type |-> "IMMOBILISE", status |-> "requested", deviceId |-> 1,
      organizationId |-> "1", userId |-> "1", reason |-> <<"a">>],
     [type |-> "RESTORE_POWER", status |-> "requested", deviceId |-> 2,
      organizationId |-> "1", userId |-> "1", reason |-> <<"a", " ", "b">>],
     [type |-> "IMMOBILISE", status |-> "requested", deviceId |-> 1,
      organizationId |-> "2", userId |-> "1", reason |-> <<"a">>]}

\* An id that crypto.randomUUID() never returned
UnknownId == 0

\* Ids a caller passes to updateCommand
CommandIds == 0..(MaxCommands)

\* Arguments of updateCommand: Partial<Command>, any subset of the fields
Updates ==
    {[status |-> "pending"],
     [status |-> "executed", executedAt |-> 9],
     [status |-> "failed", notes |-> <<"n">>],
     [deviceId |-> 2, reason |-> <<>>]}
    \cup {[id |-> i, status |-> "cancelled"] : i \in CommandIds}

\* Return values: null, one record, or an array of records
ReturnedNull == [kind |-> "null"]
ReturnedCommand(cmd) == [kind |-> "command", value |-> cmd]
ReturnedList(list) == [kind |-> "list", value |-> list]

Call(fn, args) == [fn |-> fn, args |-> args]

\* allCommands.filter(cmd => cmd.organizationId === organizationId)
GetCommands(o) ==
    SelectSeq(StoredCommands, LAMBDA cmd : cmd.organizationId = o)

\* getCommands(organizationId).filter(requested or pending)
GetPendingCommands(o) == SelectSeq(GetCommands(o), IsPending)

\* allCommands.findIndex(cmd => cmd.id === id)
FindIndex(log, id) ==
    IF \E i \in DOMAIN log : log[i].id = id
    THEN CHOOSE i \in DOMAIN log :
            log[i].id = id /\ \A j \in 1..(i - 1) : log[j].id # id
    ELSE -1

Merge_KeepsId(cmd, updates) ==
    [f \in DOMAIN cmd \cup DOMAIN updates |->
        IF f \in DOMAIN updates /\ f # "id" THEN updates[f] ELSE cmd[f]]

\* { ...allCommands[index], ...updates }
Merge(cmd, updates) ==
    [f \in DOMAIN cmd \cup DOMAIN updates |->
        IF f \in DOMAIN updates THEN updates[f] ELSE cmd[f]]

\* createCommand(command)
CreateCommand(command) ==
    /\ Len(StoredCommands) < MaxCommands
    /\ CreateCommandStored(command)
    /\ returned' = ReturnedCommand(NewCommand(command, uuidsIssued + 1, now))
    /\ lastCall' = Call("createCommand", <<command>>)
    /\ UNCHANGED <<modalVars, localStorageKeys, updateCalls>>
    /\ UNCHANGED <<rtVars, dpVars, cfVars, request>>

UpdateCommandStored_MovesToEnd(id, updates) ==
    LET index == FindIndex(StoredCommands, id)
        rest == SelectSeq(StoredCommands, LAMBDA cmd : cmd # StoredCommands[index])
    IN  IF commands = Absent \/ index = -1
        THEN /\ returned' = ReturnedNull
             /\ UNCHANGED commands
        ELSE /\ commands' = Append(rest, Merge(commands[index], updates))
             /\ returned' = ReturnedCommand(Merge(commands[index], updates))

\* updateCommand(id, updates): null when nothing is stored or no record has the
\* id, else the first record with the id is replaced by the merged one
UpdateCommandStored(id, updates) ==
    LET index == FindIndex(StoredCommands, id)
    IN  IF commands = Absent \/ index = -1
        THEN /\ returned' = ReturnedNull
             /\ UNCHANGED commands
        ELSE /\ commands' = [commands EXCEPT ![index] = Merge(@, updates)]
             /\ returned' = ReturnedCommand(Merge(commands[index], updates))

\* A call of updateCommand; an id in updates is one the caller has seen
UpdateCommand(id, updates) ==
    /\ updateCalls < MaxUpdates
    /\ id <= uuidsIssued
    /\ "id" \in DOMAIN updates => updates.id <= uuidsIssued
    /\ UpdateCommandStored(id, updates)
    /\ updateCalls' = updateCalls + 1
    /\ lastCall' = Call("updateCommand", <<id, updates>>)
    /\ UNCHANGED <<modalVars, uuidsIssued, now, localStorageKeys>>
    /\ UNCHANGED <<rtVars, dpVars, cfVars, request>>

\* What a call of one of the three list functions leaves behind
Query(fn, args, result) ==
    /\ returned' = ReturnedList(result)
    /\ lastCall' = Call(fn, args)

GetCommandsCall(o) ==
    /\ Query("getCommands", <<o>>, GetCommands(o))
    /\ UNCHANGED <<wfVars, localStorageKeys, updateCalls, rtVars, dpVars, cfVars, request>>

GetDeviceCommandsCall(d, o) ==
    /\ Query("getDeviceCommands", <<d, o>>, GetDeviceCommands(d, o))
    /\ UNCHANGED <<wfVars, localStorageKeys, updateCalls, rtVars, dpVars, cfVars, request>>

GetPendingCommandsCall(o) ==
    /\ Query("getPendingCommands", <<o>>, GetPendingCommands(o))
    /\ UNCHANGED <<wfVars, localStorageKeys, updateCalls, rtVars, dpVars, cfVars, request>>

\* services/storage.ts
StorageKeys == {"traccar_config", "current_user", "current_org", "ui_preferences"}

\* A call that only removes or sets keys of STORAGE_KEYS
StorageCall(fn, keys) ==
    /\ localStorageKeys' = keys
    /\ traccarConfig' = IF "traccar_config" \in keys THEN traccarConfig ELSE Null
    /\ lastCall' = Call(fn, <<>>)
    /\ returned' = ReturnedNull
    /\ UNCHANGED <<wfVars, updateCalls>>
    /\ UNCHANGED <<rtVars, dpVars, formData, request>>

ClearAllStorage_RemovesCommands ==
    /\ localStorageKeys # {}
    /\ localStorageKeys' = {}
    /\ commands' = Absent
    /\ lastCall' = Call("clearAllStorage", <<>>)
    /\ returned' = ReturnedNull
    /\ traccarConfig' = Null
    /\ UNCHANGED <<modalVars, uuidsIssued, now, updateCalls>>
    /\ UNCHANGED <<rtVars, dpVars, formData, request>>

\* clearAllStorage(): removeItem for each of the four STORAGE_KEYS
ClearAllStorage ==
    /\ localStorageKeys # {}
    /\ StorageCall("clearAllStorage", localStorageKeys \ StorageKeys)

\* useAuth().logout: currentUserStorage.remove(), currentOrgStorage.remove()
Logout ==
    /\ {"current_user", "current_org"} \subseteq localStorageKeys
    /\ StorageCall("logout", localStorageKeys \ {"current_user", "current_org"})

\* the effect of useAuth on the next page load: the default user and
\* organization are stored when either is missing
LoadAuth ==
    /\ ~({"current_user", "current_org"} \subseteq localStorageKeys)
    /\ StorageCall("useAuth", localStorageKeys \cup {"current_user", "current_org"})

\* traccarConfigStorage.set(config)
SetTraccarConfig ==
    /\ "traccar_config" \notin localStorageKeys
    /\ localStorageKeys' = localStorageKeys \cup {"traccar_config"}
    /\ traccarConfig' = ConfigA
    /\ lastCall' = Call("traccarConfigStorage.set", <<>>)
    /\ returned' = ReturnedNull
    /\ UNCHANGED <<wfVars, updateCalls, rtVars, dpVars, formData, request>>

-----------------------------------------------------------------------------
(* Settings page (TraccarConnectionSection), hooks/useTraccarConfig.ts and *)
(* the callers of services/traccarApi.ts                                   *)

\* onChange of the Server URL input
SetServerUrl(v) ==
    /\ formData' = [formData EXCEPT !.serverUrl = v]
    /\ NoRequest
    /\ UNCHANGED <<wfVars, rtVars, stVars, dpVars, traccarConfig>>

\* onChange of the Authentication Method select
SetAuthMethod(m) ==
    /\ formData' = [formData EXCEPT !.authMethod = m]
    /\ NoRequest
    /\ UNCHANGED <<wfVars, rtVars, stVars, dpVars, traccarConfig>>

\* onChange of the API Token input, rendered when authMethod is token
SetApiToken(v) ==
    /\ formData.authMethod = "token"
    /\ formData' = [formData EXCEPT !.apiToken = v]
    /\ NoRequest
    /\ UNCHANGED <<wfVars, rtVars, stVars, dpVars, traccarConfig>>

\* onChange of the Username input, rendered when authMethod is basic
SetUsername(v) ==
    /\ formData.authMethod = "basic"
    /\ formData' = [formData EXCEPT !.username = v]
    /\ NoRequest
    /\ UNCHANGED <<wfVars, rtVars, stVars, dpVars, traccarConfig>>

\* onChange of the Password input, rendered when authMethod is basic
SetPassword(v) ==
    /\ formData.authMethod = "basic"
    /\ formData' = [formData EXCEPT !.password = v]
    /\ NoRequest
    /\ UNCHANGED <<wfVars, rtVars, stVars, dpVars, traccarConfig>>

\* handleSave past its three checks, then saveConfig(newConfig): the probe
\* settles with response, the config is stored with its verdict, and the
\* realtime client is restarted when the verdict is true
HandleSave(response) ==
    /\ now < MaxSaves
    /\ formData.serverUrl # <<>>
    /\ formData.authMethod = "token" => formData.apiToken # <<>>
    /\ formData.authMethod = "basic" =>
           formData.username # <<>> /\ formData.password # <<>>
    /\ LET newConfig == NewConfig(formData, organizationId)
           probe == testTraccarConnection(newConfig, response)
           isValid == probe.result.value
           configToSave == ConfigToSave(newConfig, isValid, now)
       IN  /\ request' = probe
           /\ traccarConfig' = configToSave
           /\ Becomes(IF isValid
                      THEN connect(disconnect(client), configToSave)
                      ELSE client)
    /\ localStorageKeys' = localStorageKeys \cup {"traccar_config"}
    /\ now' = now + 1
    /\ NoMessage
    /\ UNCHANGED <<modalVars, commands, uuidsIssued, lastCall, returned,
                   updateCalls, formData>>

\* A call of one of the REST functions by a page
ApiRequest(endpoint, response) ==
    /\ request' = apiRequest(endpoint, response)
    /\ UNCHANGED <<wfVars, rtVars, stVars, dpVars, cfVars>>

\* localStorage['traccar_config'] is overwritten with text that is not JSON
\* by something other than this program
StorageOverwritten ==
    /\ "traccar_config" \in localStorageKeys
    /\ traccarConfig # Unparsable
    /\ traccarConfig' = Unparsable
    /\ NoRequest
    /\ UNCHANGED <<wfVars, rtVars, stVars, dpVars, formData>>

-----------------------------------------------------------------------------
(* Initial state: page loaded, nothing stored, client constructed *)

InitWorkflow ==
    /\ deviceId \in DeviceIds
    /\ organizationId = "1"
    /\ userId = "1"
    /\ show = [t \in Types |-> FALSE]
    /\ step = [t \in Types |-> 1]
    /\ checklist = [t \in Types |-> EmptyChecklist]
    /\ reason = [t \in Types |-> <<>>]
    /\ confirmation = [t \in Types |-> <<>>]
    /\ typedInput = [t \in Types |-> <<>>]
    /\ isSubmitting = [t \in Types |-> FALSE]
    /\ commands = Absent
    /\ uuidsIssued = 0
    /\ now = 0
    /\ successCalls = <<>>
    /\ outcome = "none"

InitRealtime ==
    /\ ws = 0
    /\ config = Null
    /\ reconnectAttempts = 0
    /\ handlers = NoHandlers
    /\ isConnecting = FALSE
    /\ sockets = [s \in SocketIds |-> "FREE"]
    /\ wsUrl = <<>>
    /\ timers = EmptyBag
    /\ scheduledDelays = <<>>

InitStore ==
    /\ localStorageKeys = {"current_user", "current_org"}
    /\ lastCall = Call("none", <<>>)
    /\ returned = ReturnedNull
    /\ updateCalls = 0

InitDispatch ==
    /\ lastMessage = NoData
    /\ subscribed = NoHandlers
    /\ delivered = <<>>
    /\ dropped = FALSE

InitSettings ==
    /\ formData = [serverUrl |-> <<>>, authMethod |-> "token",
                   apiToken |-> <<>>, username |-> <<>>, password |-> <<>>]
    /\ traccarConfig = Null
    /\ request = None

Init ==
    InitWorkflow /\ InitRealtime /\ InitStore /\ InitDispatch /\ InitSettings

Next ==
    \/ \E t \in Types : OpenModal(t)
    \/ \E t \in Types, key \in ChecklistKeys : HandleChecklistChange(t, key)
    \/ \E t \in Types, v \in Reasons : SetReason(t, v)
    \/ \E t \in Types, v \in TypedInputs : SetConfirmation(t, v)
    \/ \E t \in Types : NextStep(t)
    \/ \E t \in Types : BackStep(t)
    \/ \E t \in Types : HandleClose(t)
    \/ \E t \in Types : HandleSubmit(t)
    \/ \E d \in DeviceIds : Navigate(d)

Spec == Init /\ [][Next]_vars

NextRealtime ==
    \/ \E cfg \in Configs : Connect(cfg)
    \/ Disconnect
    \/ \E cfg \in Configs : SaveConfigReconnect(cfg)
    \/ \E n \in 1..MaxReconnectAttempts, stale \in BOOLEAN :
           TimerFires(Timer(BackoffDelay(n), stale))
    \/ \E s \in SocketIds : SocketOpens(s)
    \/ \E s \in SocketIds : SocketFails(s)
    \/ \E s \in SocketIds : SocketCloses(s)
    \/ \E s \in SocketIds : SocketClosed(s)
    \/ Subscribe("positions", "h1")
    \/ Unsubscribe("positions", "h1")

InitSpecRealtime == Init /\ deviceId = 1

SpecRealtime == InitSpecRealtime /\ [][NextRealtime]_vars

NextDispatch ==
    \/ Connect(ConfigA)
    \/ \E s \in SocketIds : SocketOpens(s)
    \/ \E sub \in Subscriptions : Subscribe(sub[1], sub[2])
    \/ \E sub \in Subscriptions : Unsubscribe(sub[1], sub[2])
    \/ \E s \in SocketIds, data \in MessageData,
          behaviour \in [HandlerIds -> Behaviours] :
            ReceiveMessage(s, data, behaviour)

InitSpecDispatch == Init /\ deviceId = 1

SpecDispatch == InitSpecDispatch /\ [][NextDispatch]_vars

NextStore ==
    \/ \E command \in CommandInputs : CreateCommand(command)
    \/ \E id \in CommandIds, updates \in Updates : UpdateCommand(id, updates)
    \/ \E o \in OrganizationIds : GetCommandsCall(o)
    \/ \E d \in DeviceIds, o \in OrganizationIds : GetDeviceCommandsCall(d, o)
    \/ \E o \in OrganizationIds : GetPendingCommandsCall(o)
    \/ ClearAllStorage
    \/ Logout
    \/ LoadAuth
    \/ SetTraccarConfig

InitSpecStore == Init /\ deviceId = 1

SpecStore == InitSpecStore /\ [][NextStore]_vars

NextSettings ==
    \/ \E v \in ServerUrls : SetServerUrl(v)
    \/ \E m \in AuthMethods : SetAuthMethod(m)
    \/ \E v \in ApiTokens : SetApiToken(v)
    \/ \E v \in Usernames : SetUsername(v)
    \/ \E v \in Passwords : SetPassword(v)
    \/ \E response \in Responses : HandleSave(response)
    \/ \E response \in Responses : ApiRequest(Text.api_devices, response)
    \/ StorageOverwritten
    \/ \E s \in SocketIds : SocketOpens(s)
    \/ Subscribe("positions", "h1")

InitSpecSettings == Init /\ deviceId = 1

SpecSettings == InitSpecSettings /\ [][NextSettings]_vars

-----------------------------------------------------------------------------
(* Request workflow: properties *)

ChecklistComplete(t) == \A k \in ChecklistKeys : checklist[t][k]
NonBlank(text) == \E i \in DOMAIN text : text[i] \notin {" ", "\t"}
Phrase(t) == IF t = "IMMOBILISE" THEN T_IMMOBILISE ELSE T_RESTORE_POWER
LastCommand(log) == log[Len(log)]
IsReset(t) ==
    /\ step[t] = 1
    /\ checklist[t] = [k \in ChecklistKeys |-> FALSE]
    /\ reason[t] = <<>>
    /\ confirmation[t] = <<>>

\* C1: whatever the sequence of toggles, edits, Next, Back, close and Submit,
\* the command log grows only from a state in which the open modal has all three
\* checklist items affirmed, a reason that is non-empty after trimming and a
\* confirmation text equal to the phrase of its command type.
C1_CommandOnlyWhenFullyConfirmed ==
    [][StoredCommands' # StoredCommands =>
          \E t \in Types :
              /\ show[t]
              /\ ChecklistComplete(t)
              /\ NonBlank(reason[t])
              /\ confirmation[t] = Phrase(t)
              /\ Len(StoredCommands') = Len(StoredCommands) + 1
              /\ LastCommand(StoredCommands').type = t]_vars

\* A restore-power command was created
C1_Witness ==
    /\ Len(StoredCommands) >= 1
    /\ LastCommand(StoredCommands).type = "RESTORE_POWER"
    /\ outcome = "submitted"

\* C6: a successful submission from Step 3 appends exactly one Command with
\* status requested, the modal's type, the device, organization and user ids and
\* the trimmed reason; calls onSuccess once with that record; and leaves the
\* workflow at Step 1 with nothing checked and both texts empty.
C6_SuccessfulSubmission ==
    [][\A t \in Types :
          (show[t] /\ step[t] = 3 /\ outcome' = "submitted") =>
              LET cmd == LastCommand(StoredCommands')
              IN  /\ StoredCommands' = Append(StoredCommands, cmd)
                  /\ cmd.status = "requested"
                  /\ cmd.type = t
                  /\ cmd.deviceId = deviceId
                  /\ cmd.organizationId = organizationId
                  /\ cmd.userId = userId
                  /\ cmd.reason = Trim(reason[t])
                  /\ cmd.reason # <<>>
                  /\ cmd.reason[1] \notin {" ", "\t"}
                  /\ cmd.reason[Len(cmd.reason)] \notin {" ", "\t"}
                  /\ successCalls' = Append(successCalls, cmd)
                  /\ IsReset(t)']_vars

\* A submission succeeded on top of an earlier record, with a reason that was
\* typed with white space around it
C6_Witness ==
    /\ outcome = "submitted"
    /\ Len(StoredCommands) = 2
    /\ successCalls = StoredCommands
    /\ LastCommand(StoredCommands).reason = <<"a", " ", "b">>
    /\ \A t \in Types : ~show[t] /\ IsReset(t)

\* C7: when createCommand fails during submission, the log and the onSuccess
\* calls are as before and step, checklist, reason and confirmation text keep
\* their values, so that Submit can be pressed again at once.
C7_FailedCreateKeepsWorkflow ==
    [][\A t \in Types :
          (show[t] /\ step[t] = 3 /\ outcome' = "createFailed") =>
              /\ commands' = commands
              /\ successCalls' = successCalls
              /\ step'[t] = 3
              /\ checklist'[t] = checklist[t]
              /\ reason'[t] = reason[t]
              /\ confirmation'[t] = confirmation[t]
              /\ show'[t]
              /\ ChecklistComplete(t)' /\ NonBlank(reason'[t])
              /\ confirmation'[t] = Phrase(t)]_vars

\* createCommand has just failed: nothing stored, the modal still at Step 3
\* with its input
C7_Witness ==
    /\ outcome = "createFailed"
    /\ commands = Absent
    /\ successCalls = <<>>
    /\ \E t \in Types :
          show[t] /\ step[t] = 3 /\ confirmation[t] = Phrase(t)
              /\ NonBlank(reason[t])

\* C8: closing or cancelling at any step resets step to 1 and clears checklist,
\* reason and confirmation text, changes neither the log nor the onSuccess
\* calls; a closed modal is always in the empty Step 1 state and is reopened
\* in it.
C8_CloseDiscardsInput ==
    /\ [](\A t \in Types : ~show[t] => IsReset(t))
    /\ [][\A t \in Types :
            (show[t] /\ outcome' = "closed") =>
                /\ ~show'[t]
                /\ IsReset(t)'
                /\ commands' = commands
                /\ uuidsIssued' = uuidsIssued
                /\ successCalls' = successCalls]_vars
    /\ [][\A t \in Types : (~show[t] /\ show'[t]) => IsReset(t)']_vars

\* The modal was closed after a command had been created earlier
C8_Witness ==
    /\ outcome = "closed"
    /\ Len(StoredCommands) = 1
    /\ \A t \in Types : ~show[t] /\ IsReset(t)

\* C9: the step stays in {1,2,3}; it changes only by Next (+1, with the gate of
\* the current step: full checklist at Step 1, non-blank reason at Step 2), by
\* Back (-1 from Step 2 or 3) or by the reset to Step 1 of a close or a
\* successful submission; at Step 3 the checklist is complete and the trimmed
\* reason non-empty.
C9_StepDiscipline ==
    /\ [](\A t \in Types :
            /\ step[t] \in {1, 2, 3}
            /\ step[t] = 3 => ChecklistComplete(t) /\ NonBlank(reason[t]))
    /\ [][\A t \in Types :
            step'[t] # step[t] =>
                \/ /\ step'[t] = step[t] + 1
                   /\ step[t] = 1 => ChecklistComplete(t)
                   /\ step[t] = 2 => NonBlank(reason[t])
                \/ /\ step'[t] = step[t] - 1
                   /\ step[t] \in {2, 3}
                   /\ outcome' = "none"
                \/ /\ step'[t] = 1
                   /\ outcome' \in {"closed", "submitted"}]_vars

\* Step 3 was reached through both gates, with a reason typed with white space
\* around it
C9_Witness ==
    \E t \in Types :
        /\ show[t] /\ step[t] = 3
        /\ reason[t] = <<" ", "a", " ">>
        /\ ChecklistComplete(t)

PassingInputs(t) ==
    IF t = "IMMOBILISE" THEN {T_IMMOBILISE, T_immobilise}
    ELSE {T_RESTORE_POWER, T_restore_power}

\* C10: at Step 3 the gate holds exactly when the typed text, uppercased, is the
\* phrase of the command type: IMMOBILISE or RESTORE POWER in any letter case,
\* so that "immobilise" passes for IMMOBILISE, "immobilize" fails, and the
\* phrase of the other type never passes.
C10_ConfirmationGate ==
    \A t \in Types :
        (show[t] /\ step[t] = 3) =>
            /\ CanProceed(t) <=> typedInput[t] \in PassingInputs(t)
            /\ (t = "IMMOBILISE" /\ typedInput[t] = T_immobilise) => CanProceed(t)
            /\ typedInput[t] = T_immobilize => ~CanProceed(t)
            /\ \A u \in Types \ {t} : typedInput[t] \in PassingInputs(u) => ~CanProceed(t)

\* "immobilise" was typed in lower case into the IMMOBILISE modal at Step 3
C10_Witness ==
    /\ show["IMMOBILISE"] /\ step["IMMOBILISE"] = 3
    /\ typedInput["IMMOBILISE"] = T_immobilise
    /\ confirmation["IMMOBILISE"] = T_IMMOBILISE
    /\ CanProceed("IMMOBILISE")

-----------------------------------------------------------------------------
(* Realtime client: properties *)

LiveSockets == {s \in SocketIds : sockets[s] \in {"CONNECTING", "OPEN"}}

\* C2: at most one WebSocket that is connecting or open exists at any time,
\* under every interleaving of connect, disconnect, socket events and timers.
C2_AtMostOneLiveSocket == Cardinality(LiveSockets) <= 1

ExpectedDelays == <<3000, 6000, 12000, 24000, 48000>>

\* C3: counted from a retry counter of 0, the delays handed to setTimeout are
\* 3000, 6000, 12000, 24000, 48000 ms for attempts 1..5, and no sixth reconnect
\* is ever scheduled.
C3_BackoffSequence ==
    /\ reconnectAttempts <= 5
    /\ scheduledDelays = SubSeq(ExpectedDelays, 1, reconnectAttempts)
    /\ \A t \in BagToSet(timers) : \E i \in 1..5 : t.delay = ExpectedDelays[i]

\* Every attempt failed: the five reconnects were scheduled with the five
\* delays, the fifth reconnect attempt failed too and nothing is pending.
C3_Witness ==
    /\ reconnectAttempts = 5
    /\ scheduledDelays = ExpectedDelays
    /\ timers = EmptyBag
    /\ LiveSockets = {}
    /\ ws # 0 /\ sockets[ws] = "CLOSED"
    /\ config # Null

\* C4: a reconnect timer that was pending when disconnect() ran never causes a
\* connection attempt afterwards.
C4_DisconnectCancelsTimers ==
    [][\A t \in BagToSet(timers) :
          (t.stale /\ TimerFires(t)) =>
              \A s \in SocketIds :
                  sockets'[s] = "CONNECTING" => sockets[s] = "CONNECTING"]_vars

\* C5: connect(config) called while the client's socket is connecting or open
\* creates no socket and leaves config, retry counter and subscriptions alone.
C5_ConnectNoOpWhileInFlightOrOpen ==
    [][\A cfg \in Configs :
          (ws # 0 /\ sockets[ws] \in {"CONNECTING", "OPEN"} /\ Connect(cfg)) =>
              UNCHANGED <<ws, sockets, config, reconnectAttempts, handlers>>]_vars

-----------------------------------------------------------------------------
(* Command store: properties *)

Ids(log) == {log[i].id : i \in DOMAIN log}

\* C11: createCommand(command) returns a record made of the fields of command,
\* an id that no stored record carries and the current time as timestamp; the
\* log after the call is the log before it with that one record added at the
\* end, every earlier record unchanged at its position.
C11_CreateAppendsOne ==
    [][\A command \in CommandInputs :
          lastCall' = Call("createCommand", <<command>>) =>
              LET new == returned'.value
              IN  /\ returned'.kind = "command"
                  /\ Len(StoredCommands') = Len(StoredCommands) + 1
                  /\ StoredCommands'[Len(StoredCommands')] = new
                  /\ \A i \in DOMAIN StoredCommands :
                        StoredCommands'[i] = StoredCommands[i]
                  /\ new.id \notin Ids(StoredCommands)
                  /\ new.timestamp = now
                  /\ \A f \in DOMAIN command : new[f] = command[f]
                  /\ DOMAIN new = DOMAIN command \cup {"id", "timestamp"}]_vars

\* A second record was created behind one that had been updated
C11_Witness ==
    /\ lastCall.fn = "createCommand"
    /\ Len(StoredCommands) = 2
    /\ returned = ReturnedCommand(StoredCommands[2])
    /\ StoredCommands[1].status = "executed"
    /\ StoredCommands[1].id # StoredCommands[2].id

\* C12: after any sequence of createCommand and updateCommand calls no two
\* stored records carry the same id.
C12_IdsAreUnique ==
    \A i, j \in DOMAIN StoredCommands :
        StoredCommands[i].id = StoredCommands[j].id => i = j

ImmutableFields == {"id", "type", "deviceId", "organizationId", "userId",
                    "reason", "timestamp"}

\* C13: updateCommand(id, updates) leaves id, type, deviceId, organizationId,
\* userId, reason and timestamp of every stored record as they were, whatever
\* updates contains.
C13_UpdateKeepsIdentity ==
    [][lastCall'.fn = "updateCommand" =>
          \A i \in DOMAIN StoredCommands :
              \A f \in ImmutableFields :
                  StoredCommands'[i][f] = StoredCommands[i][f]]_vars

\* C14: updateCommand(id, updates) with an id that no stored record carries,
\* also when nothing is stored, returns null and leaves localStorage['commands']
\* as it was; with a matching id it returns the merged record, which replaces
\* one record carrying the id, while the log keeps its length and every other
\* record stays unchanged at its position.
C14_UpdateNotFoundOrInPlace ==
    [][\A id \in CommandIds, updates \in Updates :
          lastCall' = Call("updateCommand", <<id, updates>>) =>
              IF id \notin Ids(StoredCommands)
              THEN /\ returned' = ReturnedNull
                   /\ commands' = commands
              ELSE /\ returned'.kind = "command"
                   /\ Len(StoredCommands') = Len(StoredCommands)
                   /\ \E k \in DOMAIN StoredCommands :
                         /\ StoredCommands[k].id = id
                         /\ StoredCommands'[k] = returned'.value
                         /\ \A f \in DOMAIN updates :
                               StoredCommands'[k][f] = updates[f]
                         /\ \A i \in DOMAIN StoredCommands \ {k} :
                               StoredCommands'[i] = StoredCommands[i]]_vars

\* updateCommand was called on a log of two records with an id that neither of
\* them carries
C14_Witness ==
    /\ lastCall.fn = "updateCommand"
    /\ lastCall.args[1] = UnknownId
    /\ returned = ReturnedNull
    /\ Len(StoredCommands) = 2

\* The records of log that satisfy P, in the order in which they are in log
Matching(log, P(_)) == {i \in DOMAIN log : P(log[i])}
NthOf(S, j) == CHOOSE i \in S : Cardinality({k \in S : k <= i}) = j
InLogOrder(log, P(_)) ==
    [j \in 1..Cardinality(Matching(log, P)) |-> log[NthOf(Matching(log, P), j)]]

\* C15: getCommands(o) returns exactly the stored records of organization o,
\* getDeviceCommands(d, o) exactly those of device d and organization o,
\* getPendingCommands(o) exactly those of organization o whose status is
\* requested or pending, each in the order of the log; none of the three
\* changes the log.
C15_QueriesAreFilters ==
    [][\A o \in OrganizationIds :
          /\ lastCall' = Call("getCommands", <<o>>) =>
                /\ returned' = ReturnedList(InLogOrder(StoredCommands,
                                    LAMBDA cmd : cmd.organizationId = o))
                /\ commands' = commands
          /\ lastCall' = Call("getPendingCommands", <<o>>) =>
                /\ returned' = ReturnedList(InLogOrder(StoredCommands,
                                    LAMBDA cmd : /\ cmd.organizationId = o
                                                 /\ cmd.status \in {"requested", "pending"}))
                /\ commands' = commands
          /\ \A d \in DeviceIds :
                lastCall' = Call("getDeviceCommands", <<d, o>>) =>
                    /\ returned' = ReturnedList(InLogOrder(StoredCommands,
                                        LAMBDA cmd : /\ cmd.organizationId = o
                                                     /\ cmd.deviceId = d))
                    /\ commands' = commands]_vars

\* getPendingCommands("1") on a log that holds a pending record of
\* organization 1 and a record of organization 2
C15_Witness ==
    /\ lastCall = Call("getPendingCommands", <<"1">>)
    /\ Len(StoredCommands) = 2
    /\ Len(returned.value) = 1
    /\ returned.value[1].status = "pending"
    /\ \E i \in DOMAIN StoredCommands : StoredCommands[i].organizationId = "2"

\* C16: no call removes a record: the log never gets shorter and never goes
\* back to absent, and clearAllStorage, logout and the list functions leave it
\* exactly as it is.
C16_CommandsNeverDeleted ==
    [][/\ Len(StoredCommands') >= Len(StoredCommands)
       /\ commands # Absent => commands' # Absent
       /\ lastCall'.fn \notin {"createCommand", "updateCommand"} =>
             commands' = commands]_vars

\* clearAllStorage ran on a browser that holds two commands: the four keys are
\* gone, the commands are still there
C16_Witness ==
    /\ lastCall.fn = "clearAllStorage"
    /\ localStorageKeys = {}
    /\ Len(StoredCommands) = 2

-----------------------------------------------------------------------------
(* Message dispatch: properties *)

Contains(message, kind) ==
    message.json = "object" /\ kind \in DOMAIN message.value
IsCall(entry, kind, h) ==
    entry[1] = "call" /\ entry[2] = kind /\ entry[3] = h
CallsOf(kind, h) == {i \in DOMAIN delivered : IsCall(delivered[i], kind, h)}
RemovalsOf(kind, h) ==
    {i \in DOMAIN delivered : delivered[i] = <<"unsubscribed", kind, h>>}
\* h was taken out of the kind's subscribers before notifyHandlers reached it
RemovedBeforeTurn(kind, h) ==
    \E j \in RemovalsOf(kind, h) : \A i \in CallsOf(kind, h) : i > j

\* C17: for a message, a handler is called for a kind at most once; it is
\* called exactly when the message contains the kind and the handler was
\* subscribed to the kind when the message arrived (and was not unsubscribed
\* before its turn); every call of a kind carries the payload the message has
\* for that kind. A message with events only calls events handlers only.
C17_DispatchPerKind ==
    lastMessage # NoData =>
        \A kind \in Kinds, h \in HandlerIds :
            /\ Cardinality(CallsOf(kind, h)) <= 1
            /\ CallsOf(kind, h) # {} <=>
                  /\ Contains(lastMessage, kind)
                  /\ h \in Range(subscribed[kind])
                  /\ ~RemovedBeforeTurn(kind, h)
            /\ \A i \in CallsOf(kind, h) :
                  delivered[i][4] = lastMessage.value[kind]

\* A message with the key events only arrived while positions, devices and
\* events all had subscribers: the one events handler was called, nothing else
C17_Witness ==
    /\ lastMessage = Data("object", [k \in {"events"} |-> <<"e">>])
    /\ subscribed = [positions |-> <<"h2", "h1">>, devices |-> <<"h2">>,
                     events |-> <<"h1">>]
    /\ delivered = <<(<<"call", "events", "h1", <<"e">>>>)>>

KindOrder == [positions |-> 1, devices |-> 2, events |-> 3]
IndexIn(seq, h) == CHOOSE i \in DOMAIN seq : seq[i] = h
\* notifyHandlers reaches handler g of kind2 after handler h of kind1
Later(kind1, h, kind2, g) ==
    \/ KindOrder[kind2] > KindOrder[kind1]
    \/ /\ kind2 = kind1
       /\ IndexIn(subscribed[kind1], g) > IndexIn(subscribed[kind1], h)

\* C18: a message whose text does not parse (or parses to null) calls no
\* handler and leaves socket, config, retry counter, subscriptions, timers and
\* isConnecting as they were, so the socket stays open for the next message;
\* and when a handler throws, every subscriber of the message's kinds that
\* comes after it is still called.
C18_FaultsAreIsolated ==
    /\ [][lastMessage'.json \in {"malformed", "null"} =>
              /\ UNCHANGED rtVars
              /\ delivered' = <<>>]_vars
    /\ [](\A i \in DOMAIN delivered :
             delivered[i][1] = "caught" =>
                 \A kind \in Kinds, g \in HandlerIds :
                     (/\ Contains(lastMessage, kind)
                      /\ g \in Range(subscribed[kind])
                      /\ RemovalsOf(kind, g) = {}
                      /\ Later(delivered[i][2], delivered[i][3], kind, g))
                     => \E j \in CallsOf(kind, g) : j > i)

\* After a dropped message, a message with all three kinds arrived: the first
\* positions handler threw, and the second positions handler and the handlers
\* of devices and events were called all the same
C18_Witness ==
    /\ dropped
    /\ lastMessage = Data("object", KindPayload)
    /\ subscribed = [positions |-> <<"h1", "h2">>, devices |-> <<"h2">>,
                     events |-> <<"h1">>]
    /\ delivered = <<(<<"call", "positions", "h1", <<"p">>>>),
                     (<<"caught", "positions", "h1">>),
                     (<<"call", "positions", "h2", <<"p">>>>),
                     (<<"call", "devices", "h2", <<"d">>>>),
                     (<<"call", "events", "h1", <<"e">>>>),
                     (<<"caught", "events", "h1">>)>>

\* C19: the unsubscribe function of (kind, h) takes h out of the kind's
\* subscribers and changes nothing else; a handler is only ever called while it
\* is subscribed, so not after its unsubscribe function returned, not even
\* later in the dispatch of the message during which it returned; all
\* remaining subscribers of the message's kinds are still called.
C19_UnsubscribeRemovesOnlyThatHandler ==
    /\ [][\A sub \in Subscriptions :
              Unsubscribe(sub[1], sub[2]) =>
                  /\ Range(handlers'[sub[1]]) = Range(handlers[sub[1]]) \ {sub[2]}
                  /\ \A kind \in Kinds \ {sub[1]} :
                        handlers'[kind] = handlers[kind]]_vars
    /\ [](\A kind \in Kinds, h \in HandlerIds :
             /\ \A i \in CallsOf(kind, h) :
                   /\ h \in Range(subscribed[kind])
                   /\ \A j \in RemovalsOf(kind, h) : j > i
             /\ (/\ Contains(lastMessage, kind)
                 /\ h \in Range(subscribed[kind])
                 /\ RemovalsOf(kind, h) = {}) => CallsOf(kind, h) # {}
             /\ (lastMessage.json = "object" /\ RemovalsOf(kind, h) = {}) =>
                   (h \in Range(handlers[kind]) <=> h \in Range(subscribed[kind])))

\* While a message with all three kinds was dispatched, the first positions
\* handler unsubscribed the second: the second was not called for positions,
\* but it was for devices
C19_Witness ==
    /\ lastMessage = Data("object", KindPayload)
    /\ subscribed["positions"] = <<"h1", "h2">>
    /\ handlers["positions"] = <<"h1">>
    /\ RemovalsOf("positions", "h2") # {}
    /\ CallsOf("positions", "h1") # {}
    /\ CallsOf("positions", "h2") = {}
    /\ CallsOf("devices", "h2") # {}

-----------------------------------------------------------------------------
(* Realtime client: disconnect *)

\* C20: disconnect() can be called in every state of the client and leaves it
\* with no socket (this.ws null and that socket closing or closed), no
\* subscriptions, no stored config and a retry counter of 0; a second
\* disconnect() right after it changes nothing.
C20_DisconnectIsIdempotent ==
    /\ [](/\ ENABLED Disconnect
           /\ disconnect(disconnect(client)) = disconnect(client))
    /\ [][Disconnect =>
              /\ ws' = 0
              /\ ws # 0 => sockets'[ws] \notin {"CONNECTING", "OPEN"}
              /\ handlers' = NoHandlers
              /\ config' = Null
              /\ reconnectAttempts' = 0]_vars

\* disconnect() ran while the client was waiting for its third reconnect:
\* nothing of the connection is left but the timer
C20_Witness ==
    /\ ws = 0 /\ config = Null /\ reconnectAttempts = 0
    /\ handlers = NoHandlers
    /\ LiveSockets = {}
    /\ timers = SetToBag({Timer(BackoffDelay(3), TRUE)})

-----------------------------------------------------------------------------
(* Realtime client: retry counter *)

\* Timers that the step scheduled
NewTimers ==
    {t \in BagToSet(timers') :
        ~t.stale /\ CopiesIn(t, timers') > CopiesIn(t, timers)}

\* C21: the open event of a socket sets the retry counter to 0; while the
\* counter is 0 the next reconnect that is scheduled is the first of a new
\* series: it makes the counter 1 and has the base delay of 3000 ms, so that
\* five reconnects can be scheduled again.
C21_OpenClearsRetryCounter ==
    /\ [][\A s \in SocketIds : SocketOpens(s) => reconnectAttempts' = 0]_vars
    /\ [][(reconnectAttempts = 0 /\ NewTimers # {}) =>
              /\ reconnectAttempts' = 1
              /\ NewTimers = {Timer(ReconnectDelay, FALSE)}
              /\ MaxReconnectAttempts - reconnectAttempts' = 4]_vars

\* After two failed attempts an explicit connect succeeded: the socket is open
\* and the counter is back at 0 while the 6000 ms timer of the second failure
\* is still pending
C21_Witness ==
    /\ ws # 0 /\ sockets[ws] = "OPEN"
    /\ reconnectAttempts = 0
    /\ BagIn(Timer(BackoffDelay(2), FALSE), timers)

\* C26: disconnect() followed at once by connect(config), as saveConfig does,
\* always leaves the client with that config and a socket that is connecting.
C26_ConnectAfterDisconnectStartsAttempt ==
    [][\A cfg \in Configs :
          SaveConfigReconnect(cfg) =>
              /\ config' = cfg
              /\ ws' # 0
              /\ sockets'[ws'] = "CONNECTING"]_vars

\* C27: the retry counter stays between 0 and 5 and at most one reconnect
\* timer is pending at any time.
C27_AtMostOneTimerPending ==
    /\ reconnectAttempts \in 0..MaxReconnectAttempts
    /\ BagCardinality(timers) <= 1

\* C29: the retry counter goes down only by the open event of a socket or by
\* disconnect() (alone or as the first half of saveConfig), never by connect();
\* once it is 5, a connect(config) that passes the guard creates one socket
\* and leaves the counter at 5, and no step schedules a reconnect while the
\* counter stays 5.
C29_ConnectKeepsRetryCounter ==
    /\ [][reconnectAttempts' < reconnectAttempts =>
              /\ reconnectAttempts' = 0
              /\ \/ \E s \in SocketIds : SocketOpens(s)
                 \/ Disconnect
                 \/ \E cfg \in Configs : SaveConfigReconnect(cfg)]_vars
    /\ [][\A cfg \in Configs :
              (reconnectAttempts = MaxReconnectAttempts /\ Connect(cfg)
                 /\ ~connectGuard(client)) =>
                  /\ reconnectAttempts' = MaxReconnectAttempts
                  /\ ws' # 0 /\ sockets'[ws'] = "CONNECTING"
                  /\ Cardinality({s \in SocketIds : sockets'[s] # sockets[s]}) <= 2
                  /\ NewTimers = {}]_vars
    /\ [][(reconnectAttempts = MaxReconnectAttempts
             /\ reconnectAttempts' = MaxReconnectAttempts) => NewTimers = {}]_vars

\* The five reconnects for config A are used up; connect(B) was called and its
\* attempt failed as well: counter still 5, nothing pending
C29_Witness ==
    /\ reconnectAttempts = MaxReconnectAttempts
    /\ config = ConfigB
    /\ scheduledDelays = ExpectedDelays
    /\ timers = EmptyBag
    /\ ws # 0 /\ sockets[ws] = "CLOSED"
    /\ ~isConnecting

-----------------------------------------------------------------------------
(* Request workflow: failed submissions *)

\* C28: a submission that ends on the failure path (the alert is shown, the
\* workflow is not reset) leaves the command log as it was, whether
\* createCommand or the onSuccess callback threw.
C28_FailurePathStoresNothing ==
    [][outcome' \in {"createFailed", "callbackFailed"} =>
          StoredCommands' = StoredCommands]_<<outcome, uuidsIssued>>

-----------------------------------------------------------------------------
(* Connection config: properties *)

T_wss_x_socket == <<"w","s","s",":","/","/","x",".","t","e","s","t","/","a","p","i","/","s","o","c","k","e","t">>
T_ws_x_socket == <<"w","s",":","/","/","x",".","t","e","s","t","/","a","p","i","/","s","o","c","k","e","t">>
T_wss_x_slash_socket == <<"w","s","s",":","/","/","x",".","t","e","s","t","/","/","a","p","i","/","s","o","c","k","e","t">>
T_ws_slashes == <<"w","s",":","/","/">>
T_wss_slashes == <<"w","s","s",":","/","/">>

\* The endpoint each server URL of Configs stands for
Endpoint(serverUrl) ==
    CASE serverUrl = Text.https_x -> T_wss_x_socket
      [] serverUrl = Text.http_x_slash -> T_ws_x_socket
      [] serverUrl = Text.https_x_slashes -> T_wss_x_slash_socket

\* C25: the socket the client holds for a config was made with the config's
\* server URL in which http became ws and https became wss, one trailing
\* slash was removed and /api/socket was appended; https://x.test gives
\* wss://x.test/api/socket, and an https URL gives a wss:// endpoint, never a
\* ws:// one.
C25_RealtimeEndpoint ==
    ws # 0 /\ config # Null =>
        /\ wsUrl = Endpoint(config.serverUrl)
        /\ StartsWith(config.serverUrl, Text.https_colon) =>
               StartsWith(wsUrl, T_wss_slashes) /\ ~StartsWith(wsUrl, T_ws_slashes)

\* A socket is open for https://x.test
C25_Witness ==
    /\ ws # 0
    /\ sockets[ws] = "OPEN"
    /\ config.serverUrl = Text.https_x
    /\ wsUrl = T_wss_x_socket

\* C22: every stored connection config has the credentials of its authMethod
\* and none of the other method, whatever was typed into the form before the
\* save.
C22_OneCredentialForm ==
    traccarConfig \notin {Null, Unparsable} =>
        /\ traccarConfig.authMethod = "token" =>
               /\ traccarConfig.apiToken # <<>>
               /\ traccarConfig.username = <<>>
               /\ traccarConfig.password = <<>>
        /\ traccarConfig.authMethod = "basic" =>
               /\ traccarConfig.username # <<>>
               /\ traccarConfig.password # <<>>
               /\ traccarConfig.apiToken = <<>>

T_Basic_dTpw == <<"B","a","s","i","c"," ","d","T","p","w">>

Sent(req) == req.kind = "apiRequest" /\ req.fetch # None

\* C24: a REST call made with a valid stored config carries the header
\* "Bearer <apiToken>" when authMethod is token and "Basic <base64 of
\* username:password>" when it is basic, whatever other credentials the
\* config holds.
C24_AuthorizationByMethod ==
    Sent(request) =>
        /\ "Authorization" \in DOMAIN request.fetch.headers
        /\ traccarConfig.authMethod = "token" =>
               request.fetch.headers.Authorization = Text.Bearer \o traccarConfig.apiToken
        /\ traccarConfig.authMethod = "basic" =>
               request.fetch.headers.Authorization =
                   Text.Basic \o Btoa(traccarConfig.username \o <<":">>
                                   \o traccarConfig.password)

\* A call made with a basic config that also holds an API token
C24_Witness ==
    /\ Sent(request)
    /\ traccarConfig.authMethod = "basic"
    /\ traccarConfig.apiToken = Text.tk
    /\ request.fetch.headers.Authorization = T_Basic_dTpw

Usable(cfg) == IF cfg \in {Null, Unparsable} THEN FALSE ELSE cfg.isValid

\* C23: a REST call without a usable stored config is rejected with the
\* configuration error and calls fetch not at all; otherwise 401 gives the
\* authentication error, 404 the not-found error, another status outside 2xx
\* the API error with status and status text, and a 2xx status the parsed
\* body.
C23_OutcomeMapping ==
    request.kind = "apiRequest" =>
        IF ~Usable(traccarConfig)
        THEN /\ request.fetch = None
             /\ request.result = Rejected(ErrorMessage.notConfigured)
        ELSE /\ request.fetch # None
             /\ request.response.kind = "response" =>
                    IF request.response.status = 401
                    THEN request.result = Rejected(ErrorMessage.authentication)
                    ELSE IF request.response.status = 404
                    THEN request.result = Rejected(ErrorMessage.notFound)
                    ELSE IF request.response.status \notin 200..299
                    THEN request.result =
                             RejectedApiError(request.response.status,
                                              request.response.statusText)
                    ELSE request.result.kind = "resolved"

\* C30: a save stores the form's config with the probe's verdict and the
\* present time; when the verdict is true the client drops its socket and
\* holds a new connecting one for the stored config; when it is false the
\* client's socket, config and subscriptions stay as they were and every REST
\* call is refused.
C30_SaveConfig ==
    [][now' # now =>
        /\ request'.kind = "testTraccarConnection"
        /\ traccarConfig' =
               ConfigToSave(NewConfig(formData, organizationId),
                            request'.result.value, now)
        /\ traccarConfig'.isValid =>
               /\ ws' # 0
               /\ ws' # ws
               /\ sockets'[ws'] = "CONNECTING"
               /\ config' = traccarConfig'
               /\ ws # 0 => sockets'[ws] \in {"CLOSING", "FREE"}
        /\ ~traccarConfig'.isValid =>
               /\ UNCHANGED <<ws, sockets, config, handlers>>
               /\ \A response \in Responses :
                      apiRequest(Text.api_devices, response)'.fetch = None
      ]_vars

=============================================================================
